---- MODULE Spec2Model ----
(***************************************************************************)
(* A model of main.py: the FastAPI gateway in front of yfinance, the       *)
(* RapidAPI profile fallback, Polygon grouped-daily and the Nasdaq         *)
(* screener, with its Redis read-through cache and its proxy selection.    *)
(*                                                                         *)
(* Text is modelled as a sequence of one-character strings, so that        *)
(* upper-casing, concatenation, date parsing and key construction are      *)
(* computed and not assumed.  Python values that can be of several types   *)
(* are tagged records [t |-> tag, v |-> value].                            *)
(***************************************************************************)
EXTENDS Integers, Sequences, FiniteSets, TLC

VARIABLES cfg,       \* the environment-derived globals of main.py (lines 18-42)
          store,     \* the Redis database: cache key -> [val, ttl]
          upstream,  \* the version of the data the upstream providers serve
          memo,      \* the TTLCache of get_polygon_grouped_daily: date -> reply
          nreq,      \* number of requests handled so far
          last,      \* the request just handled: endpoint, inputs, effects, response
          prev,      \* what the client keeps of the response it received before
          probe,     \* two requests and the cache keys the handlers give them
          tasks,     \* the requests handled concurrently: where each one is
          proxy,     \* the proxy of the process-wide yfinance configuration
          loop,      \* the coroutine that holds the event loop, 0 when it is free
          writes     \* the cache-store writes that completed, in their order

vars == <<cfg, store, upstream, memo, nreq, last, prev, probe, tasks, proxy, loop, writes>>

\* the part of the state that belongs to concurrent handling
conc == <<tasks, proxy, loop, writes>>

-----------------------------------------------------------------------------
(* Bounds of the model *)

MaxRequests == 2     \* requests handled in one behaviour
MaxVersion == 2      \* versions the upstream data goes through
MaxSeed == 1         \* outcomes of the random source that are explored
MaxTasks == 2        \* requests handled concurrently

-----------------------------------------------------------------------------
(* Python values *)

None == [t |-> "none", v |-> <<>>]
Str(s) == [t |-> "str", v |-> s]
JNull == [t |-> "null", v |-> <<>>]
JObj(m) == [t |-> "obj", v |-> m]
JArr(a) == [t |-> "arr", v |-> a]
EmptyDict == [k \in {} |-> JNull]

Digits == <<"0", "1", "2", "3", "4", "5", "6", "7", "8", "9">>

IsDigit(c) == \E i \in 1..10 : Digits[i] = c

DigitVal(c) == (CHOOSE i \in 1..10 : Digits[i] = c) - 1

\* str.upper() on the letters the model's symbols use
UpperChar(c) ==
    CASE c = "a" -> "A"
      [] c = "b" -> "B"
      [] c = "d" -> "D"
      [] c = "x" -> "X"
      [] OTHER -> c

Upper(s) == [i \in 1..Len(s) |-> UpperChar(s[i])]

\* a + b on str operands; anything else is a TypeError
Concat(a, b) ==
    IF a.t = "str" /\ b.t = "str" THEN Str(a.v \o b.v) ELSE [t |-> "TypeError", v |-> <<>>]

-----------------------------------------------------------------------------
(* json.dumps and json.loads.  The text is a sequence of tokens <<kind,     *)
(* text>>: "p" punctuation, "k" an object key, "s" a string, "n" null.     *)
(* A dict keeps its insertion order; the model's dicts insert their keys   *)
(* in the order of KeyOrder.                                               *)

KeyOrder ==
    <<"symbol", "price", "trailingPegRatio", "quoteSummary", "result", "error",
      "summaryProfile", "sector", "1704412800000", "Close", "status", "results">>

P(c) == <<"p", c>>

IsP(tok, c) == tok[1] = "p" /\ tok[2] = c

RECURSIVE DumpValue(_), DumpElems(_, _), DumpMembers(_, _, _)

DumpValue(x) ==
    CASE x.t = "str" -> << <<"s", x.v>> >>
      [] x.t = "null" -> << <<"n", "null">> >>
      [] x.t = "arr" -> <<P("[")>> \o DumpElems(x.v, 1) \o <<P("]")>>
      [] x.t = "obj" -> <<P("{")>> \o DumpMembers(x.v, 1, TRUE) \o <<P("}")>>

DumpElems(a, i) ==
    IF i > Len(a) THEN <<>>
    ELSE (IF i > 1 THEN <<P(",")>> ELSE <<>>) \o DumpValue(a[i]) \o DumpElems(a, i + 1)

DumpMembers(m, i, first) ==
    IF i > Len(KeyOrder) THEN <<>>
    ELSE IF KeyOrder[i] \in DOMAIN m
         THEN (IF first THEN <<>> ELSE <<P(",")>>)
              \o << <<"k", KeyOrder[i]>>, P(":") >>
              \o DumpValue(m[KeyOrder[i]])
              \o DumpMembers(m, i + 1, FALSE)
         ELSE DumpMembers(m, i + 1, first)

json_dumps(x) == [t |-> "json", v |-> DumpValue(x)]

RECURSIVE ParseValue(_, _), ParseMembers(_, _, _), ParseElems(_, _, _)

ParseValue(toks, i) ==
    CASE toks[i][1] = "s" -> [val |-> Str(toks[i][2]), next |-> i + 1]
      [] toks[i][1] = "n" -> [val |-> JNull, next |-> i + 1]
      [] IsP(toks[i], "{") -> ParseMembers(toks, i + 1, EmptyDict)
      [] IsP(toks[i], "[") -> ParseElems(toks, i + 1, <<>>)

ParseMembers(toks, i, acc) ==
    IF IsP(toks[i], "}") THEN [val |-> JObj(acc), next |-> i + 1]
    ELSE IF IsP(toks[i], ",") THEN ParseMembers(toks, i + 1, acc)
    ELSE LET r == ParseValue(toks, i + 2)
         IN  ParseMembers(toks, r.next, (toks[i][2] :> r.val) @@ acc)

ParseElems(toks, i, acc) ==
    IF IsP(toks[i], "]") THEN [val |-> JArr(acc), next |-> i + 1]
    ELSE IF IsP(toks[i], ",") THEN ParseElems(toks, i + 1, acc)
    ELSE LET r == ParseValue(toks, i)
         IN  ParseElems(toks, r.next, Append(acc, r.val))

json_loads(text) == ParseValue(text.v, 1).val

-----------------------------------------------------------------------------
(* base64.urlsafe_b64encode(...).decode().replace('=', '') on a sequence   *)
(* of bytes                                                                *)

B64Alphabet ==
    <<"A", "B", "C", "D", "E", "F", "G", "H", "I", "J", "K", "L", "M", "N", "O", "P",
      "Q", "R", "S", "T", "U", "V", "W", "X", "Y", "Z", "a", "b", "c", "d", "e", "f",
      "g", "h", "i", "j", "k", "l", "m", "n", "o", "p", "q", "r", "s", "t", "u", "v",
      "w", "x", "y", "z", "0", "1", "2", "3", "4", "5", "6", "7", "8", "9", "-", "_">>

B64Char(n) == B64Alphabet[n + 1]

RECURSIVE urlsafe_b64encode(_)

urlsafe_b64encode(b) ==
    IF Len(b) = 0 THEN <<>>
    ELSE IF Len(b) = 1
         THEN <<B64Char(b[1] \div 4), B64Char((b[1] % 4) * 16), "=", "=">>
    ELSE IF Len(b) = 2
         THEN <<B64Char(b[1] \div 4), B64Char((b[1] % 4) * 16 + b[2] \div 16),
                B64Char((b[2] % 16) * 4), "=">>
    ELSE <<B64Char(b[1] \div 4), B64Char((b[1] % 4) * 16 + b[2] \div 16),
           B64Char((b[2] % 16) * 4 + b[3] \div 64), B64Char(b[3] % 64)>>
         \o urlsafe_b64encode(SubSeq(b, 4, Len(b)))

RemoveEq(s) == SelectSeq(s, LAMBDA c : c # "=")

EncodeCsv(csv) == [t |-> "b64", v |-> RemoveEq(urlsafe_b64encode(csv.v))]

-----------------------------------------------------------------------------
(* datetime.strptime(date_str, "%Y-%m-%d"): %Y is four digits, %m is       *)
(* 1[0-2]|0[1-9]|[1-9], %d is 3[01]|[12]\d|0[1-9]|[1-9]| [1-9]; the whole  *)
(* text must match, and the date must exist in the calendar.               *)

IndexOfDash(s, from) ==
    IF \E i \in from..Len(s) : s[i] = "-"
    THEN CHOOSE i \in from..Len(s) : s[i] = "-" /\ \A j \in from..(i - 1) : s[j] # "-"
    ELSE 0

MonthText(m) ==
    \/ Len(m) = 1 /\ IsDigit(m[1]) /\ m[1] # "0"
    \/ Len(m) = 2 /\ m[1] = "1" /\ m[2] \in {"0", "1", "2"}
    \/ Len(m) = 2 /\ m[1] = "0" /\ IsDigit(m[2]) /\ m[2] # "0"

DayText(d) ==
    \/ Len(d) = 1 /\ IsDigit(d[1]) /\ d[1] # "0"
    \/ Len(d) = 2 /\ d[1] = "3" /\ d[2] \in {"0", "1"}
    \/ Len(d) = 2 /\ d[1] \in {"1", "2"} /\ IsDigit(d[2])
    \/ Len(d) = 2 /\ d[1] \in {"0", " "} /\ IsDigit(d[2]) /\ d[2] # "0"

RECURSIVE Number(_)

Number(s) ==
    IF Len(s) = 0 THEN 0
    ELSE IF s[Len(s)] = " " THEN 0
    ELSE 10 * Number(SubSeq(s, 1, Len(s) - 1)) + DigitVal(s[Len(s)])

IsLeap(y) == (y % 4 = 0 /\ y % 100 # 0) \/ y % 400 = 0

DaysInMonth(y, m) ==
    IF m = 2 THEN (IF IsLeap(y) THEN 29 ELSE 28)
    ELSE IF m \in {4, 6, 9, 11} THEN 30 ELSE 31

\* the parsed date <<year, month, day>>, or <<>> where strptime raises ValueError
strptime(s) ==
    LET d1 == IndexOfDash(s, 1)
        d2 == IF d1 = 0 THEN 0 ELSE IndexOfDash(s, d1 + 1)
    IN  IF d1 # 5 \/ d2 = 0 THEN <<>>
        ELSE LET yt == SubSeq(s, 1, 4)
                 mt == SubSeq(s, 6, d2 - 1)
                 dt == SubSeq(s, d2 + 1, Len(s))
             IN  IF ~(\A i \in 1..4 : IsDigit(yt[i])) \/ ~MonthText(mt) \/ ~DayText(dt)
                 THEN <<>>
                 ELSE LET y == Number(yt)
                          m == Number(mt)
                          d == Number(dt)
                      IN  IF y < 1 \/ d > DaysInMonth(y, m) THEN <<>> ELSE <<y, m, d>>

validate_date_format_any(date_str) == TRUE

validate_date_format(date_str) == strptime(date_str) # <<>>

\* datetime ordering, as the ordering of (year, month, day)
DateLess(a, b) ==
    \/ a[1] < b[1]
    \/ a[1] = b[1] /\ a[2] < b[2]
    \/ a[1] = b[1] /\ a[2] = b[2] /\ a[3] < b[3]

-----------------------------------------------------------------------------
(* Configuration (module level of main.py) *)

CACHE_EXPIRATION == 3600
CACHE_EXPIRATION_SHORT == 600
CACHE_EXPIRATION_LONG == 82800
TIME_OUT == 20
RandomLength == 8

OptionalText(s) == {None, Str(s)}

\* the deployments explored: the two session credentials are set together
Configs ==
    {c \in [IS_LOCAL_ENV : BOOLEAN,
            SESSION_PROXY : BOOLEAN,
            SESSION_A : OptionalText(<<"u", "-">>),
            SESSION_B : OptionalText(<<"@", "h">>),
            HTTP_PROXY : OptionalText(<<"h", "p">>),
            RAPIDAPI_KEY : OptionalText(<<"r", "k">>),
            VALID_API_KEY : {Str(<<"s", "e", "c", "r", "e", "t">>)}] :
        (c.SESSION_A = None) = (c.SESSION_B = None)}

-----------------------------------------------------------------------------
(* What a request does and what it answers *)

\* one effect of a handler on the outside world
Ev(op, key, ttl, val, res) == [op |-> op, key |-> key, ttl |-> ttl, val |-> val, res |-> res]

BaseResp ==
    [http |-> 200, status |-> FALSE, symbol |-> None, date |-> None, result |-> None,
     cache |-> "", error |-> "", detail |-> None, allowed |-> <<>>]

Ok(symbol, result) == [BaseResp EXCEPT !.status = TRUE, !.symbol = Str(symbol), !.result = result]

Hit(symbol, result) == [Ok(symbol, result) EXCEPT !.cache = "hit"]

Fail(symbol, error) == [BaseResp EXCEPT !.symbol = Str(symbol), !.error = error]

\* an exception no handler catches: the framework answers 500 Internal Server Error
Crash(exc) == [BaseResp EXCEPT !.http = 500, !.error = exc]

\* one execution of a handler: its effects in order, its response, the store it leaves
Out(log, resp, st) == [log |-> log, resp |-> resp, store |-> st, memo |-> memo]

\* the same for the handler that leaves the in-process memo changed
OutMemo(log, resp, m) == [log |-> log, resp |-> resp, store |-> store, memo |-> m]

FailNoSymbol(error) == [BaseResp EXCEPT !.error = error]

NoArgs == [api_key |-> None, symbol |-> <<>>, start |-> <<>>, end |-> <<>>, periods |-> <<>>, date |-> <<>>]

Setex_nx(st, key, ttl, val) ==
    IF key \in DOMAIN st THEN st ELSE (key :> [val |-> val, ttl |-> ttl]) @@ st

Setex(st, key, ttl, val) == (key :> [val |-> val, ttl |-> ttl]) @@ st

-----------------------------------------------------------------------------
(* verify_api_key, the dependency of /tickers, /history and /periods *)

verify_api_key_any(api_key) == TRUE

verify_api_key(api_key) == api_key = cfg.VALID_API_KEY

\* no response: the call the handler is blocked in never returns
Pending == [BaseResp EXCEPT !.http = 0]

Unauthorized == [BaseResp EXCEPT !.http = 401, !.error = "Invalid API Key"]

MissingHeader == [BaseResp EXCEPT !.http = 422, !.error = "Field required"]

\* the executions of a route that depends on verify_api_key
Depends(api_key, outs) ==
    IF api_key = None THEN {Out(<<>>, MissingHeader, store)}
    ELSE IF ~verify_api_key(api_key) THEN {Out(<<>>, Unauthorized, store)}
    ELSE outs

-----------------------------------------------------------------------------
(* Proxy selection: lines 150-156, 236-242 and 292-298 *)

generate_random_string(seed) == [i \in 1..RandomLength |-> Digits[((seed * i + seed) % 10) + 1]]

Seeds == 0..MaxSeed

SessionProxy(seed) ==
    Concat(Concat(cfg.SESSION_A, Str(generate_random_string(seed))), cfg.SESSION_B)

\* the value of Proxy, or a TypeError raised by the first assignment
SelectProxy(seed) ==
    LET first == SessionProxy(seed)
    IN  IF first.t = "TypeError" THEN first
        ELSE IF cfg.SESSION_PROXY THEN SessionProxy(seed) ELSE cfg.HTTP_PROXY

-----------------------------------------------------------------------------
(* The upstream providers.  What they answer is the environment's choice;  *)
(* the data they serve is at version `upstream`.                           *)

VersionText == Str(<<Digits[upstream + 1]>>)

\* yf.Ticker(symbol).info when it returns
InfoPayload(kind, symbol) ==
    CASE kind = "empty" -> JObj(EmptyDict)
      [] kind = "noid" -> JObj("trailingPegRatio" :> JNull)
      [] kind = "ok" -> JObj(("symbol" :> Str(symbol)) @@ ("price" :> VersionText))

InfoReplies == {"empty", "noid", "ok"}

\* the body of a 200 reply of the get-profile call
ProfilePayload(kind) ==
    CASE kind = "noquote" -> JObj("error" :> JNull)
      [] kind = "nullresult" -> JObj("quoteSummary" :> JObj(("result" :> JNull) @@ ("error" :> JNull)))
      [] kind = "emptyresult" -> JObj("quoteSummary" :> JObj("result" :> JArr(<<>>)))
      [] kind = "noprofile" -> JObj("quoteSummary" :> JObj("result" :> JArr(<<JObj(EmptyDict)>>)))
      [] kind = "ok" ->
           JObj("quoteSummary" :>
                JObj(("result" :> JArr(<<JObj("summaryProfile" :> JObj("sector" :> VersionText))>>))
                     @@ ("error" :> JNull)))

ProfileReplies == {"noquote", "nullresult", "emptyresult", "noprofile", "ok"}

-----------------------------------------------------------------------------
(* GET /tickers/{symbol}: get_stock_info, lines 135-213 *)

NS_TICKER == <<"s", "t", "o", "c", "k", "_", "t", "i", "c", "k", "e", "r", "_", "i", "n", "f", "o">>

TickerKey(symbol) == NS_TICKER \o <<":">> \o symbol

\* line 193: "yes", "no", or the TypeError of len(None)
ProfileCheck(result) ==
    IF "quoteSummary" \notin DOMAIN result.v THEN "no"
    ELSE LET qs == result.v["quoteSummary"]
         IN  IF "result" \notin DOMAIN qs.v THEN "no"
             ELSE IF qs.v["result"].t # "arr" THEN "TypeError"
             ELSE IF ~(Len(qs.v["result"].v) > 0) THEN "no"
             ELSE IF "summaryProfile" \in DOMAIN qs.v["result"].v[1].v THEN "yes" ELSE "no"

FallbackTTL_default == CACHE_EXPIRATION

\* line 196: the expiry the fallback path gives its entry
FallbackTTL == CACHE_EXPIRATION_LONG

\* line 196: what the fallback path serialises into the store
FallbackCached(result, profile_data) == json_dumps(result)

\* lines 177-213: the except branch; requests.get is given no timeout (line
\* 190), so it raises, returns, or waits for a reply that never comes
TickerFallback(symbol, cache_key, log) ==
    IF cfg.RAPIDAPI_KEY = None
    THEN {Out(log, Fail(symbol, "API request failed"), store)}
    ELSE {Out(Append(log, Ev("requests.get", <<"rapidapi">>, 0, None, "raise")),
              Crash("RequestException"), store)}
         \cup
         {Out(Append(log, Ev("requests.get", <<"rapidapi">>, 0, None, "hang")), Pending, store)}
         \cup
         {Out(Append(log, Ev("requests.get", <<"rapidapi">>, 0, None, "non200")),
              Fail(symbol, "API request failed"), store)}
         \cup
         UNION {
           LET result == ProfilePayload(kind)
               log1 == Append(log, Ev("requests.get", <<"rapidapi">>, 0, result, "200"))
               chk == ProfileCheck(result)
           IN  IF chk = "TypeError" THEN {Out(log1, Crash("TypeError: len() of None"), store)}
               ELSE IF chk = "no" THEN {Out(log1, Fail(symbol, "Invalid stock symbol"), store)}
               ELSE LET profile_data == result.v["quoteSummary"].v["result"].v[1].v["summaryProfile"]
                        text == FallbackCached(result, profile_data)
                    IN  IF cfg.IS_LOCAL_ENV
                        THEN {Out(log1, Ok(symbol, profile_data), store)}
                        ELSE {Out(Append(log1, Ev("r.setex", cache_key, FallbackTTL, text, "ok")),
                                  Ok(symbol, profile_data),
                                  Setex(store, cache_key, FallbackTTL, text)),
                              Out(Append(log1, Ev("r.setex", cache_key, FallbackTTL, text, "error")),
                                  Crash("RedisError"), store)}
           : kind \in ProfileReplies }

\* line 161: the payload is empty or has no 'symbol'
InvalidInfo(result) == DOMAIN result.v = {} \/ "symbol" \notin DOMAIN result.v

\* lines 158-175: the try block
TickerPrimary(symbol, cache_key, log) ==
    TickerFallback(symbol, cache_key, Append(log, Ev("yf.info", symbol, 0, None, "raise")))
    \cup
    UNION {
      LET result == InfoPayload(kind, symbol)
          log1 == Append(log, Ev("yf.info", symbol, 0, result, "ok"))
      IN  IF InvalidInfo(result)
          THEN {Out(log1, Fail(symbol, "Invalid stock symbol"), store)}
          ELSE IF cfg.IS_LOCAL_ENV
          THEN {Out(log1, Ok(symbol, result), store)}
          ELSE LET text == json_dumps(result)
               IN  {Out(Append(log1, Ev("r.setex", cache_key, CACHE_EXPIRATION_LONG, text, "ok")),
                        Ok(symbol, result),
                        Setex(store, cache_key, CACHE_EXPIRATION_LONG, text))}
                   \cup
                   TickerFallback(symbol, cache_key,
                       Append(log1, Ev("r.setex", cache_key, CACHE_EXPIRATION_LONG, text, "error")))
      : kind \in InfoReplies }

\* lines 150-156, then the fetch
TickerFetch(symbol, cache_key, log) ==
    UNION {
      LET Proxy == SelectProxy(seed)
      IN  IF Proxy.t = "TypeError" THEN {Out(log, Crash("TypeError: unsupported operand"), store)}
          ELSE TickerPrimary(symbol, cache_key,
                             Append(log, Ev("yf.set_config", <<>>, 0, Proxy, "ok")))
      : seed \in Seeds }

\* r.get(key) and the `if cached_data:` test: the bytes stored, None on a miss
CacheRead(key) == IF key \in DOMAIN store THEN store[key].val ELSE None

get_stock_info(symbol_in) ==
    LET symbol == Upper(symbol_in)
        cache_key == TickerKey(symbol)
        cached_data == CacheRead(cache_key)
    IN  IF cfg.IS_LOCAL_ENV THEN TickerFetch(symbol, cache_key, <<>>)
        ELSE {Out(<<Ev("r.get", cache_key, 0, None, "error")>>, Crash("RedisError"), store)}
             \cup
             (IF cached_data # None
              THEN {Out(<<Ev("r.get", cache_key, 0, cached_data, "hit")>>,
                        Hit(symbol, json_loads(cached_data)), store)}
              ELSE TickerFetch(symbol, cache_key,
                               <<Ev("r.get", cache_key, 0, None, "miss")>>))

-----------------------------------------------------------------------------
(* GET /history/{symbol}: history_stock_data, lines 215-267 *)

\* a <= b on datetimes
DateLeq(a, b) == a = b \/ DateLess(a, b)

RangeRejected_strict(start_date, end_date) == DateLess(end_date, start_date)

\* line 229
RangeRejected(start_date, end_date) == DateLeq(end_date, start_date)

\* line 219
HistoryDatesValid(start, end) ==
    ~(~validate_date_format(start) \/ ~validate_date_format(end))

\* json.loads(df.to_json(orient="index")) of a frame that is not empty
FrameJson == json_loads(json_dumps(JObj("1704412800000" :> JObj("Close" :> VersionText))))

\* lines 244-267: the try block
HistoryFetch(symbol, start, end, log) ==
    {Out(Append(log, Ev("yf.history", symbol, 0, None, "raise")),
         Fail(symbol, "API request failed"), store),
     Out(Append(log, Ev("yf.history", symbol, 0, None, "empty")),
         Fail(symbol, "No data found for the given symbol and date range."), store),
     Out(Append(log, Ev("yf.history", symbol, 0, FrameJson, "ok")),
         Ok(symbol, FrameJson), store)}

history_stock_data(symbol_in, start, end) ==
    LET symbol == Upper(symbol_in)
    IN  IF ~HistoryDatesValid(start, end)
        THEN {Out(<<>>, Fail(symbol, "Invalid date format. Please use yyyy-MM-dd."), store)}
        ELSE IF strptime(start) = <<>> \/ strptime(end) = <<>>
        THEN {Out(<<>>, Crash("ValueError"), store)}
        ELSE IF RangeRejected(strptime(start), strptime(end))
        THEN {Out(<<>>, Fail(symbol, "End date must be greater than start date."), store)}
        ELSE UNION {
               LET Proxy == SelectProxy(seed)
               IN  IF Proxy.t = "TypeError" THEN {Out(<<>>, Crash("TypeError: unsupported operand"), store)}
                   ELSE HistoryFetch(symbol, start, end,
                                     <<Ev("yf.set_config", <<>>, 0, Proxy, "ok")>>)
               : seed \in Seeds }

-----------------------------------------------------------------------------
(* GET /periods/{symbol}/{periods}: periods_stock_data, lines 269-356 *)

valid_periods_no10y ==
    << <<"1", "d">>, <<"5", "d">>, <<"1", "m", "o">>, <<"3", "m", "o">>, <<"6", "m", "o">>,
       <<"1", "y">>, <<"2", "y">>, <<"5", "y">>, <<"y", "t", "d">>, <<"m", "a", "x">> >>

valid_periods ==
    << <<"1", "d">>, <<"5", "d">>, <<"1", "m", "o">>, <<"3", "m", "o">>, <<"6", "m", "o">>,
       <<"1", "y">>, <<"2", "y">>, <<"5", "y">>, <<"1", "0", "y">>, <<"y", "t", "d">>,
       <<"m", "a", "x">> >>

\* line 274: periods in valid_periods
PeriodValid(periods) == \E i \in 1..Len(valid_periods) : valid_periods[i] = periods

NS_PERIODS == <<"s", "t", "o", "c", "k", "_", "p", "e", "r", "i", "o", "d", "s">>

PeriodsKey_noperiod(symbol, periods) == NS_PERIODS \o <<":">> \o symbol

PeriodsKey(symbol, periods) == NS_PERIODS \o <<":">> \o symbol \o <<":">> \o periods

MinRows == 10

\* lines 320-322
Interval(periods) == IF periods = <<"1", "d">> THEN <<"3", "0", "m">> ELSE <<"1", "d">>

RECURSIVE CsvRows(_)

CsvRows(n) == IF n = 0 THEN <<>> ELSE <<48 + upstream, 10>> \o CsvRows(n - 1)

\* df.to_csv(): a header line and one line per row
to_csv(rows) == [t |-> "csv", v |-> <<68, 10>> \o CsvRows(rows)]

FrameKinds == {"empty", "short", "ok"}

FrameRows(kind) == IF kind = "empty" THEN 0 ELSE IF kind = "short" THEN MinRows - 1 ELSE MinRows

PeriodsDownload_cacheshort(symbol, periods, cache_key, log) ==
    LET encoded == EncodeCsv(to_csv(FrameRows("short")))
        log1 == Append(log, Ev("yf.download", symbol, 0, Str(Interval(periods)), "short"))
    IN  {Out(Append(log1, Ev("r.setex", cache_key, CACHE_EXPIRATION, encoded, "ok")),
             Fail(symbol, "Data rows are less than 10 rows."),
             Setex(store, cache_key, CACHE_EXPIRATION, encoded))}

\* lines 319-356: the second try block
PeriodsDownload(symbol, periods, cache_key, log) ==
    {Out(Append(log, Ev("yf.download", symbol, 0, Str(Interval(periods)), "raise")),
         Fail(symbol, "API request failed"), store)}
    \cup
    UNION {
      LET rows == FrameRows(kind)
          log1 == Append(log, Ev("yf.download", symbol, 0, Str(Interval(periods)), kind))
          result == to_csv(rows)
      IN  IF rows = 0
          THEN {Out(log1, Fail(symbol, "No data found for the given symbol and period."), store)}
          ELSE IF rows < MinRows
          THEN {Out(log1, Fail(symbol, "Data rows are less than 10 rows."), store)}
          ELSE IF cfg.IS_LOCAL_ENV
          THEN {Out(log1, Ok(symbol, result), store)}
          ELSE LET encoded == EncodeCsv(result)
               IN  {Out(Append(log1, Ev("r.setex", cache_key, CACHE_EXPIRATION, encoded, "ok")),
                        Ok(symbol, encoded),
                        Setex(store, cache_key, CACHE_EXPIRATION, encoded)),
                    Out(Append(log1, Ev("r.setex", cache_key, CACHE_EXPIRATION, encoded, "error")),
                        Fail(symbol, "API request failed"), store)}
      : kind \in FrameKinds }

\* lines 300-317: the delisting probe
PeriodsProbe(symbol, periods, cache_key, log) ==
    {Out(Append(log, Ev("yf.history", symbol, 0, None, "YFPricesMissingError")),
         Fail(symbol, "YFPricesMissingError"), store),
     Out(Append(log, Ev("yf.history", symbol, 0, None, "raise")),
         Fail(symbol, "request failed"), store)}
    \cup
    PeriodsDownload(symbol, periods, cache_key,
                    Append(log, Ev("yf.history", symbol, 0, None, "ok")))

\* lines 292-298, then the fetches
PeriodsFetch(symbol, periods, cache_key, log) ==
    UNION {
      LET Proxy == SelectProxy(seed)
      IN  IF Proxy.t = "TypeError" THEN {Out(log, Crash("TypeError: unsupported operand"), store)}
          ELSE PeriodsProbe(symbol, periods, cache_key,
                            Append(log, Ev("yf.set_config", <<>>, 0, Proxy, "ok")))
      : seed \in Seeds }

InvalidPeriod(symbol) ==
    [Fail(symbol, "Invalid period. Must be one of: ") EXCEPT !.allowed = valid_periods]

periods_stock_data(symbol_in, periods) ==
    LET symbol == Upper(symbol_in)
        cache_key == PeriodsKey(symbol, periods)
        cached_data == CacheRead(cache_key)
    IN  IF ~PeriodValid(periods) THEN {Out(<<>>, InvalidPeriod(symbol), store)}
        ELSE IF cfg.IS_LOCAL_ENV THEN PeriodsFetch(symbol, periods, cache_key, <<>>)
        ELSE {Out(<<Ev("r.get", cache_key, 0, None, "error")>>, Crash("RedisError"), store)}
             \cup
             (IF cached_data # None
              THEN {Out(<<Ev("r.get", cache_key, 0, cached_data, "hit")>>,
                        Hit(symbol, cached_data), store)}
              ELSE PeriodsFetch(symbol, periods, cache_key,
                                <<Ev("r.get", cache_key, 0, None, "miss")>>))

-----------------------------------------------------------------------------
(* GET /market/stocks/{date}: get_entire_stocks_daily, lines 86-133, and   *)
(* the memoized get_polygon_grouped_daily, lines 56-76                     *)

\* datetime.now() of the run
Today == <<2025, 6, 15>>

PolygonReply(kind) ==
    CASE kind = "OK" -> JObj(("status" :> Str(<<"O", "K">>)) @@ ("results" :> VersionText))
      [] kind = "ERROR" -> JObj("status" :> Str(<<"E", "R", "R", "O", "R">>))
      [] kind = "nostatus" -> JObj(EmptyDict)

PolygonReplies == {"OK", "ERROR", "nostatus"}

\* @cached: a call with a memoized date returns the memoized reply; any other
\* call goes out, and what it returns is memoized.  An exception is not.
\* requests.get is given no timeout (line 74), so it raises, returns, or
\* waits for a reply that never comes.
get_polygon_grouped_daily(date) ==
    IF date \in DOMAIN memo
    THEN {[raised |-> FALSE, data |-> memo[date], memo |-> memo, log |-> <<>>]}
    ELSE {[raised |-> TRUE, data |-> None, memo |-> memo,
           log |-> <<Ev("requests.get", <<"polygon">>, 0, None, res)>>]
          : res \in {"raise", "hang"}}
         \cup
         {[raised |-> FALSE, data |-> PolygonReply(kind),
           memo |-> (date :> PolygonReply(kind)) @@ memo,
           log |-> <<Ev("requests.get", <<"polygon">>, 0, PolygonReply(kind), "200")>>]
          : kind \in PolygonReplies}

\* lines 117-133
MarketFetch(date) ==
    { IF call.log # <<>> /\ call.log[1].res = "hang"
      THEN OutMemo(call.log, Pending, call.memo)
      ELSE IF call.raised \/ "status" \notin DOMAIN call.data.v
      THEN OutMemo(call.log, FailNoSymbol("API request failed"), call.memo)
      ELSE IF call.data.v["status"] # Str(<<"O", "K">>)
      THEN OutMemo(call.log,
                   [BaseResp EXCEPT !.error = "upstream reply", !.detail = call.data],
                   call.memo)
      ELSE OutMemo(call.log,
                   [BaseResp EXCEPT !.status = TRUE, !.date = Str(date), !.result = call.data],
                   call.memo)
      : call \in get_polygon_grouped_daily(date) }

get_entire_stocks_daily(date) ==
    IF ~validate_date_format(date)
    THEN {Out(<<>>, FailNoSymbol("Invalid date format. Please use YYYY-MM-DD"), store)}
    ELSE IF strptime(date) = <<>>
    THEN {Out(<<>>, FailNoSymbol("Invalid date: "), store)}
    ELSE IF DateLess(Today, strptime(date))
    THEN {Out(<<>>, FailNoSymbol("Date cannot be in the future"), store)}
    ELSE MarketFetch(date)

-----------------------------------------------------------------------------
(* GET /stock/symbol/all: get_all_us_stock_tickers, lines 358-406 *)

ALL_KEY == <<"a", "l", "l", "_", "s", "t", "o", "c", "k", "_", "t", "i", "c", "k", "e", "r", "s">>

\* the symbols of the rows the screener lists
NasdaqRows == << <<"A", "B">>, <<"^", "X">>, <<"B", "/", "A">>, VersionText.v >>

\* lines 387-393
TickerList(rows) ==
    LET tickers == SelectSeq(rows, LAMBDA ticker : \A i \in 1..Len(ticker) : ticker[i] # "^")
    IN  [i \in 1..Len(tickers) |->
            Str([j \in 1..Len(tickers[i]) |->
                    IF tickers[i][j] = "/" THEN "-" ELSE tickers[i][j]])]

\* lines 374-406: the try block
AllTickersFetch(cache_key, log) ==
    LET tickers == JArr(TickerList(NasdaqRows))
        text == json_dumps(tickers)
        log1 == Append(log, Ev("requests.get", <<"nasdaq">>, 0, None, "200"))
    IN  {Out(Append(log, Ev("requests.get", <<"nasdaq">>, 0, None, "raise")),
             FailNoSymbol("request failed"), store),
         Out(Append(log, Ev("requests.get", <<"nasdaq">>, 0, None, "norows")),
             FailNoSymbol("request failed"), store),
         Out(Append(log1, Ev("r.setex", cache_key, CACHE_EXPIRATION_LONG, text, "ok")),
             [BaseResp EXCEPT !.status = TRUE, !.result = tickers],
             Setex(store, cache_key, CACHE_EXPIRATION_LONG, text)),
         Out(Append(log1, Ev("r.setex", cache_key, CACHE_EXPIRATION_LONG, text, "error")),
             FailNoSymbol("request failed"), store)}

get_all_us_stock_tickers ==
    LET cache_key == ALL_KEY
        cached_data == CacheRead(cache_key)
    IN  IF cfg.IS_LOCAL_ENV
        THEN {Out(<<>>, Crash("NameError"), store)}
        ELSE {Out(<<Ev("r.get", cache_key, 0, None, "error")>>, Crash("RedisError"), store)}
             \cup
             (IF cached_data # None
              THEN {Out(<<Ev("r.get", cache_key, 0, cached_data, "hit")>>,
                        [BaseResp EXCEPT !.status = TRUE, !.result = json_loads(cached_data),
                                         !.cache = "hit"],
                        store)}
              ELSE AllTickersFetch(cache_key, <<Ev("r.get", cache_key, 0, None, "miss")>>))

-----------------------------------------------------------------------------
(* Requests *)

Symbols == {<<"a", "b">>, <<"A", "B">>, <<"x">>}

ApiKeys == {None, Str(<<"s", "e", "c", "r", "e", "t">>), Str(<<"w", "r", "o", "n", "g">>)}

D_0105 == <<"2", "0", "2", "4", "-", "0", "1", "-", "0", "5">>
D_16 == <<"2", "0", "2", "4", "-", "1", "-", "6">>
D_slashes == <<"2", "0", "2", "4", "/", "1", "3", "/", "4", "0">>
D_feb30 == <<"2", "0", "2", "4", "-", "0", "2", "-", "3", "0">>
D_future == <<"2", "9", "9", "9", "-", "0", "1", "-", "0", "1">>

HistoryDates == {D_0105, D_16, D_slashes}

MarketDates == {D_0105, D_16, D_slashes, D_feb30, D_future}

PeriodInputs == {<<"1", "d">>, <<"m", "a", "x">>, <<"1", "w">>, <<"1", "D">>, <<>>}

EmptyStore == [k \in {} |-> None]

Idle == [endpoint |-> "", args |-> NoArgs, ver |-> 1, log |-> <<>>, resp |-> BaseResp]

NoPrev ==
    [endpoint |-> "", symbol |-> <<>>, date |-> <<>>, ver |-> 1, status |-> FALSE,
     result |-> None, cache |-> "", storeError |-> FALSE]

\* the state after the module has been loaded
Loaded ==
    /\ cfg \in Configs
    /\ store = EmptyStore
    /\ upstream = 1
    /\ memo = EmptyStore
    /\ nreq = 0
    /\ last = Idle
    /\ prev = NoPrev

NoProbe == [a |-> NoArgs, b |-> NoArgs, ka |-> <<>>, kb |-> <<>>]

\* no request is being handled concurrently
Quiet ==
    /\ tasks = <<>>
    /\ proxy = None
    /\ loop = 0
    /\ writes = <<>>

Init == Loaded /\ probe = NoProbe /\ Quiet

\* the server takes the next request when it has answered the one before
Ready == last = Idle /\ nreq < MaxRequests

\* the request is handled: `last` is its record, store and memo are what it left
Handle(endpoint, args, out) ==
    /\ nreq' = nreq + 1
    /\ last' = [endpoint |-> endpoint, args |-> args, ver |-> upstream,
                log |-> out.log, resp |-> out.resp]
    /\ store' = out.store
    /\ memo' = out.memo
    /\ UNCHANGED <<cfg, upstream, prev, probe, conc>>

TickersRequestOf(symbols) ==
    /\ Ready
    /\ \E symbol \in symbols, api_key \in ApiKeys :
        \E out \in Depends(api_key, get_stock_info(symbol)) :
            Handle("/tickers", [NoArgs EXCEPT !.api_key = api_key, !.symbol = symbol], out)

TickersRequest == TickersRequestOf(Symbols)

HistoryRequestOf(symbols, dates) ==
    /\ Ready
    /\ \E symbol \in symbols, api_key \in ApiKeys, start \in dates, end \in dates :
        \E out \in Depends(api_key, history_stock_data(symbol, start, end)) :
            Handle("/history",
                   [NoArgs EXCEPT !.api_key = api_key, !.symbol = symbol,
                                  !.start = start, !.end = end],
                   out)

HistoryRequest == HistoryRequestOf(Symbols, HistoryDates)

PeriodsRequestOf(symbols, tokens) ==
    /\ Ready
    /\ \E symbol \in symbols, api_key \in ApiKeys, periods \in tokens :
        \E out \in Depends(api_key, periods_stock_data(symbol, periods)) :
            Handle("/periods",
                   [NoArgs EXCEPT !.api_key = api_key, !.symbol = symbol, !.periods = periods],
                   out)

PeriodsRequest == PeriodsRequestOf(Symbols, PeriodInputs)

\* every period token of the documentation, and three that are not
PeriodTokens ==
    {<<"1", "d">>, <<"5", "d">>, <<"1", "m", "o">>, <<"3", "m", "o">>, <<"6", "m", "o">>,
     <<"1", "y">>, <<"2", "y">>, <<"5", "y">>, <<"1", "0", "y">>, <<"y", "t", "d">>,
     <<"m", "a", "x">>, <<"1", "w">>, <<"1", "D">>, <<>>}

PeriodsRequestAny == PeriodsRequestOf({<<"a", "b">>}, PeriodTokens)

MarketRequest ==
    /\ Ready
    /\ \E date \in MarketDates :
        \E out \in get_entire_stocks_daily(date) :
            Handle("/market", [NoArgs EXCEPT !.date = date], out)

AllTickersRequest ==
    /\ Ready
    /\ \E out \in get_all_us_stock_tickers :
        Handle("/all", NoArgs, out)

StoreError(log) == \E i \in 1..Len(log) : log[i].op \in {"r.get", "r.setex"} /\ log[i].res = "error"

\* what the client keeps of a response to /tickers or /market
Summary(rec) ==
    IF rec.endpoint \in {"/tickers", "/market"} /\ rec.resp.http = 200
    THEN [endpoint |-> rec.endpoint, symbol |-> Upper(rec.args.symbol), date |-> rec.args.date,
          ver |-> rec.ver, status |-> rec.resp.status, result |-> rec.resp.result,
          cache |-> rec.resp.cache, storeError |-> StoreError(rec.log)]
    ELSE NoPrev

\* the response goes out to the client; the server is ready for the next request
Deliver ==
    /\ last # Idle
    /\ last.resp # Pending
    /\ prev' = Summary(last)
    /\ last' = Idle
    /\ UNCHANGED <<cfg, store, upstream, memo, nreq, probe, conc>>

\* the providers' data moves on, between two requests
UpstreamChange ==
    /\ last = Idle
    /\ upstream < MaxVersion
    /\ upstream' = upstream + 1
    /\ UNCHANGED <<cfg, store, memo, nreq, last, prev, probe, conc>>

Next ==
    \/ TickersRequest
    \/ HistoryRequest
    \/ PeriodsRequest
    \/ MarketRequest
    \/ AllTickersRequest
    \/ Deliver
    \/ UpstreamChange

Spec == Init /\ [][Next]_vars

\* the service under /periods requests alone, with every period token
NextPeriods ==
    \/ PeriodsRequestAny
    \/ Deliver
    \/ UpstreamChange

SpecPeriods == Init /\ [][NextPeriods]_vars

\* The two endpoints that take calendar dates, alone.
NextDates ==
    \/ HistoryRequest
    \/ MarketRequest
    \/ Deliver
    \/ UpstreamChange

SpecDates == Init /\ [][NextDates]_vars

\* The three endpoints behind the X-API-Key dependency, with every key.
NextKeyed ==
    \/ TickersRequestOf({<<"a", "b">>, <<"x">>})
    \/ HistoryRequestOf({<<"a", "b">>, <<"x">>}, HistoryDates)
    \/ PeriodsRequestOf({<<"a", "b">>, <<"x">>}, {<<"1", "d">>, <<"1", "w">>, <<>>})
    \/ Deliver
    \/ UpstreamChange

SpecKeyed == Init /\ [][NextKeyed]_vars

\* The three endpoints that use the cache store.
NextCache ==
    \/ TickersRequestOf({<<"a", "b">>, <<"x">>})
    \/ PeriodsRequestOf({<<"x">>}, {<<"1", "d">>, <<"m", "a", "x">>, <<"1", "w">>})
    \/ AllTickersRequest
    \/ Deliver
    \/ UpstreamChange

SpecCache == Init /\ [][NextCache]_vars

-----------------------------------------------------------------------------
(* The cache keys, as functions of the request: lines 138, 281 and 366 *)

KeySymbols ==
    {<<"a", "b">>, <<"A", "B">>, <<"a", "B">>, <<"x">>, <<"x", ":", "1", "d">>,
     <<"a", "b", ":", "1", "d">>, <<":">>, <<>>}

KeyPeriods == {<<"1", "d">>, <<"5", "d">>, <<"m", "a", "x">>}

\* the requests that reach the computation of a cache key
KeyRequests ==
    {[endpoint |-> "/tickers", symbol |-> symbol, periods |-> <<>>] : symbol \in KeySymbols}
    \cup {[endpoint |-> "/periods", symbol |-> symbol, periods |-> periods]
           : symbol \in KeySymbols, periods \in {p \in KeyPeriods : PeriodValid(p)}}
    \cup {[endpoint |-> "/all", symbol |-> <<>>, periods |-> <<>>]}

\* the cache_key of the handler of the request
CacheKeyOf(req) ==
    CASE req.endpoint = "/tickers" -> TickerKey(Upper(req.symbol))
      [] req.endpoint = "/periods" -> PeriodsKey(Upper(req.symbol), req.periods)
      [] req.endpoint = "/all" -> ALL_KEY

InitKeys ==
    /\ Loaded
    /\ Quiet
    /\ \E a \in KeyRequests, b \in KeyRequests :
           probe = [a |-> a, b |-> b, ka |-> <<>>, kb |-> <<>>]

ComputeKeys ==
    /\ probe.ka = <<>>
    /\ probe' = [probe EXCEPT !.ka = CacheKeyOf(probe.a), !.kb = CacheKeyOf(probe.b)]
    /\ UNCHANGED <<cfg, store, upstream, memo, nreq, last, prev, conc>>

SpecKeys == InitKeys /\ [][ComputeKeys]_vars

-----------------------------------------------------------------------------
(* Concurrent handling.  The handlers declared `async def` (/tickers,      *)
(* /history, /periods) are coroutines of the one event loop and contain no *)
(* await; get_all_us_stock_tickers is declared `def` and runs in a worker  *)
(* thread.  A coroutine is followed from its start to yf.set_config and    *)
(* from there to its return; the thread is followed call by call.          *)

TaskKinds == {"/tickers", "/history", "/periods", "/all"}

\* line 359 is a plain def; lines 136, 216 and 270 are async def
IsCoroutine(kind) == kind # "/all"

Yields_always(pc) == TRUE

\* the coroutines have no await: once started, a handler runs to its return
Yields(pc) == FALSE

\* the requests that are handled concurrently
TaskSymbol == <<"x">>
TaskPeriods == <<"1", "d">>
TaskStart == D_0105
TaskEnd == D_16

NewTask(kind) ==
    [kind |-> kind, pc |-> "start", sel |-> None, used |-> <<>>, fetched |-> None,
     log |-> <<>>, resp |-> Pending]

\* MaxTasks requests of the given kinds have been accepted
Accepted(kinds) ==
    /\ Loaded
    /\ probe = NoProbe
    /\ tasks \in [1..MaxTasks -> {NewTask(kind) : kind \in kinds}]
    /\ proxy = None
    /\ loop = 0
    /\ writes = <<>>

\* the cache key of a task
TaskKey(kind) ==
    CASE kind = "/tickers" -> TickerKey(Upper(TaskSymbol))
      [] kind = "/periods" -> PeriodsKey(Upper(TaskSymbol), TaskPeriods)
      [] kind = "/all" -> ALL_KEY
      [] OTHER -> <<>>

\* a handler has returned and its response is on its way out
Responding == \E j \in DOMAIN tasks : tasks[j].pc = "done"

\* task i takes a step: no response is waiting to go out, and if i is a
\* coroutine the event loop is free or i holds it
CanRun(i) ==
    /\ ~Responding
    /\ IsCoroutine(tasks[i].kind) => loop \in {0, i}

\* who holds the event loop after a step of task i that leaves it at pc
Holder(i, pc) ==
    IF ~IsCoroutine(tasks[i].kind) THEN loop
    ELSE IF pc = "done" \/ (pc # "hung" /\ Yields(pc)) THEN 0
    ELSE i

\* the writes of a request that completed, from its effects
WritesOf(log) == SelectSeq(log, LAMBDA e : e.op = "r.setex" /\ e.res = "ok")

\* the payload a request fetched itself: that of its last outbound call
FetchedOf(log) ==
    LET calls == SelectSeq(log, LAMBDA e : e.op \in {"yf.info", "requests.get"} /\ e.val # None)
    IN  IF calls = <<>> THEN None
        ELSE LET e == calls[Len(calls)]
             IN  IF e.op = "yf.info" THEN e.val
                 ELSE IF ProfileCheck(e.val) = "yes"
                 THEN e.val.v["quoteSummary"].v["result"].v[1].v["summaryProfile"]
                 ELSE None

\* the request has made an outbound call through yfinance
HasUpstream(log, kind) ==
    kind # "/all" /\ \E k \in 1..Len(log) : log[k].op \in {"yf.info", "yf.history", "yf.download"}

\* task i returns: its effects and its response
Finish(i, log, resp, st) ==
    /\ tasks' = [tasks EXCEPT ![i].pc = IF resp = Pending THEN "hung" ELSE "done",
                              ![i].log = log,
                              ![i].resp = resp,
                              ![i].fetched = IF tasks[i].kind = "/all" THEN @ ELSE FetchedOf(log),
                              ![i].used = IF HasUpstream(log, tasks[i].kind) THEN <<proxy>> ELSE @]
    /\ store' = st
    /\ writes' = writes \o WritesOf(SubSeq(log, Len(tasks[i].log) + 1, Len(log)))
    /\ loop' = Holder(i, IF resp = Pending THEN "hung" ELSE "done")
    /\ UNCHANGED <<cfg, upstream, memo, nreq, last, prev, probe, proxy>>

\* lines 150-156, 236-242, 292-298: the selection, up to yf.set_config
SelectStep(i, log) ==
    \E seed \in Seeds :
        LET Proxy == SelectProxy(seed)
        IN  IF Proxy.t = "TypeError"
            THEN Finish(i, log, Crash("TypeError: unsupported operand"), store)
            ELSE /\ tasks' = [tasks EXCEPT ![i].pc = "fetch",
                                           ![i].sel = Proxy,
                                           ![i].log = Append(log, Ev("yf.set_config", <<>>, 0, Proxy, "ok"))]
                 /\ proxy' = Proxy
                 /\ loop' = Holder(i, "fetch")
                 /\ UNCHANGED <<cfg, store, upstream, memo, nreq, last, prev, probe, writes>>

\* a coroutine from its first line to yf.set_config
Begin(i) ==
    /\ tasks[i].pc = "start" /\ IsCoroutine(tasks[i].kind) /\ CanRun(i)
    /\ LET kind == tasks[i].kind
           symbol == Upper(TaskSymbol)
           cache_key == TaskKey(kind)
           cached_data == CacheRead(cache_key)
       IN  IF kind = "/history"
           THEN IF ~HistoryDatesValid(TaskStart, TaskEnd)
                THEN Finish(i, <<>>, Fail(symbol, "Invalid date format. Please use yyyy-MM-dd."), store)
                ELSE IF RangeRejected(strptime(TaskStart), strptime(TaskEnd))
                THEN Finish(i, <<>>, Fail(symbol, "End date must be greater than start date."), store)
                ELSE SelectStep(i, <<>>)
           ELSE IF kind = "/periods" /\ ~PeriodValid(TaskPeriods)
           THEN Finish(i, <<>>, InvalidPeriod(symbol), store)
           ELSE IF cfg.IS_LOCAL_ENV THEN SelectStep(i, <<>>)
           ELSE \/ Finish(i, <<Ev("r.get", cache_key, 0, None, "error")>>, Crash("RedisError"), store)
                \/ /\ cached_data # None
                   /\ Finish(i, <<Ev("r.get", cache_key, 0, cached_data, "hit")>>,
                             Hit(symbol, IF kind = "/tickers" THEN json_loads(cached_data)
                                         ELSE cached_data),
                             store)
                \/ /\ cached_data = None
                   /\ SelectStep(i, <<Ev("r.get", cache_key, 0, None, "miss")>>)

\* a coroutine from yf.set_config to its return
Fetch(i) ==
    /\ tasks[i].pc = "fetch" /\ IsCoroutine(tasks[i].kind) /\ CanRun(i)
    /\ LET kind == tasks[i].kind
           symbol == Upper(TaskSymbol)
           outs == CASE kind = "/tickers" -> TickerPrimary(symbol, TaskKey(kind), tasks[i].log)
                     [] kind = "/history" -> HistoryFetch(symbol, TaskStart, TaskEnd, tasks[i].log)
                     [] kind = "/periods" ->
                          PeriodsProbe(symbol, TaskPeriods, TaskKey(kind), tasks[i].log)
       IN  \E out \in outs : Finish(i, out.log, out.resp, out.store)

\* lines 366-373 in the worker thread
ThreadGet(i) ==
    /\ tasks[i].pc = "start" /\ tasks[i].kind = "/all" /\ CanRun(i)
    /\ LET cache_key == ALL_KEY
           cached_data == CacheRead(cache_key)
       IN  IF cfg.IS_LOCAL_ENV THEN Finish(i, <<>>, Crash("NameError"), store)
           ELSE \/ Finish(i, <<Ev("r.get", cache_key, 0, None, "error")>>, Crash("RedisError"), store)
                \/ /\ cached_data # None
                   /\ Finish(i, <<Ev("r.get", cache_key, 0, cached_data, "hit")>>,
                             [BaseResp EXCEPT !.status = TRUE, !.result = json_loads(cached_data),
                                              !.cache = "hit"],
                             store)
                \/ /\ cached_data = None
                   /\ tasks' = [tasks EXCEPT ![i].pc = "fetch",
                                             ![i].log = <<Ev("r.get", cache_key, 0, None, "miss")>>]
                   /\ UNCHANGED <<cfg, store, upstream, memo, nreq, last, prev, probe,
                                  proxy, loop, writes>>

\* lines 383-393 in the worker thread
ThreadFetch(i) ==
    /\ tasks[i].pc = "fetch" /\ tasks[i].kind = "/all" /\ CanRun(i)
    /\ \/ \E res \in {"raise", "norows"} :
              Finish(i, Append(tasks[i].log, Ev("requests.get", <<"nasdaq">>, 0, None, res)),
                     FailNoSymbol("request failed"), store)
       \/ /\ tasks' = [tasks EXCEPT ![i].pc = "write",
                                    ![i].fetched = JArr(TickerList(NasdaqRows)),
                                    ![i].log = Append(@, Ev("requests.get", <<"nasdaq">>, 0, None, "200"))]
          /\ UNCHANGED <<cfg, store, upstream, memo, nreq, last, prev, probe, proxy, loop, writes>>

\* lines 396-406 in the worker thread
ThreadWrite(i) ==
    /\ tasks[i].pc = "write" /\ tasks[i].kind = "/all" /\ CanRun(i)
    /\ LET tickers == tasks[i].fetched
           text == json_dumps(tickers)
       IN  \/ Finish(i, Append(tasks[i].log, Ev("r.setex", ALL_KEY, CACHE_EXPIRATION_LONG, text, "ok")),
                     [BaseResp EXCEPT !.status = TRUE, !.result = tickers],
                     Setex(store, ALL_KEY, CACHE_EXPIRATION_LONG, text))
           \/ Finish(i, Append(tasks[i].log, Ev("r.setex", ALL_KEY, CACHE_EXPIRATION_LONG, text, "error")),
                     FailNoSymbol("request failed"), store)

\* the response of task i goes out; of the request the server keeps nothing
\* but the proxy it had set
Respond(i) ==
    /\ tasks[i].pc = "done"
    /\ tasks' = [tasks EXCEPT ![i] = [NewTask(tasks[i].kind) EXCEPT !.pc = "gone",
                                                                    !.sel = tasks[i].sel]]
    /\ UNCHANGED <<cfg, store, upstream, memo, nreq, last, prev, probe, proxy, loop, writes>>

\* requests for the keys of /tickers and /stock/symbol/all, side by side
NextShared ==
    \/ \E i \in DOMAIN tasks : Begin(i)
    \/ \E i \in DOMAIN tasks : Fetch(i)
    \/ \E i \in DOMAIN tasks : ThreadGet(i)
    \/ \E i \in DOMAIN tasks : ThreadFetch(i)
    \/ \E i \in DOMAIN tasks : ThreadWrite(i)
    \/ \E i \in DOMAIN tasks : Respond(i)
    \/ UpstreamChange

InitShared == Accepted({"/tickers", "/all"})

SpecShared == InitShared /\ [][NextShared]_vars

\* the requests that go through the proxy, side by side
NextLoop ==
    \/ \E i \in DOMAIN tasks : Begin(i)
    \/ \E i \in DOMAIN tasks : Fetch(i)
    \/ \E i \in DOMAIN tasks : Respond(i)

InitLoop == Accepted({"/tickers", "/history", "/periods"})

SpecLoop == InitLoop /\ [][NextLoop]_vars

-----------------------------------------------------------------------------
(* Vocabulary of the properties *)

CacheOps == {"r.get", "r.setex"}

UpstreamOps == {"yf.info", "yf.history", "yf.download", "requests.get"}

HasOp(log, ops) == \E i \in 1..Len(log) : log[i].op \in ops

Success(resp) == resp.http = 200 /\ resp.status

Failure(resp) == resp.http = 200 /\ ~resp.status /\ resp.error # ""

Authorized == last.args.api_key = cfg.VALID_API_KEY

ParsesAsDate(s) == strptime(s) # <<>>

Ordinal(d) == d[1] * 10000 + d[2] * 100 + d[3]

RangeError == "End date must be greater than start date."

ClaimedPeriods ==
    {<<"1", "d">>, <<"5", "d">>, <<"1", "m", "o">>, <<"3", "m", "o">>, <<"6", "m", "o">>,
     <<"1", "y">>, <<"2", "y">>, <<"5", "y">>, <<"1", "0", "y">>, <<"y", "t", "d">>,
     <<"m", "a", "x">>}

-----------------------------------------------------------------------------
(* Properties *)

\* C1: two successive successful GET /tickers/S, with the store enabled and
\* available and the upstream data unchanged, return the same result, and the
\* second carries the cache-hit tag, whichever provider served the first.
C1_RepeatedLookup ==
    (/\ prev.endpoint = "/tickers" /\ last.endpoint = "/tickers"
     /\ Upper(last.args.symbol) = prev.symbol
     /\ ~cfg.IS_LOCAL_ENV /\ ~prev.storeError /\ ~StoreError(last.log)
     /\ prev.ver = last.ver
     /\ prev.status /\ Success(last.resp))
    => (last.resp.result = prev.result /\ last.resp.cache = "hit")

\* C2: on a caching endpoint, a cache-store write that fails after a successful
\* fetch leaves the response a success envelope with the fetched value, and no
\* further provider call follows it.
C2_WriteFailureIgnored ==
    last.endpoint \in {"/tickers", "/periods", "/all"} =>
        \A i \in 1..Len(last.log) :
            (last.log[i].op = "r.setex" /\ last.log[i].res = "error") =>
                /\ Success(last.resp)
                /\ last.resp.result # None
                /\ \A j \in (i + 1)..Len(last.log) : last.log[j].op \notin UpstreamOps

\* C3: on a caching endpoint, a cache-store read that fails is treated as a
\* miss: the request goes on to the upstream fetch and answers a success or
\* failure envelope; the store error is not surfaced.
C3_ReadFailureIsMiss ==
    last.endpoint \in {"/tickers", "/periods", "/all"} =>
        \A i \in 1..Len(last.log) :
            (last.log[i].op = "r.get" /\ last.log[i].res = "error") =>
                /\ Success(last.resp) \/ Failure(last.resp)
                /\ \E j \in (i + 1)..Len(last.log) : last.log[j].op \in UpstreamOps

\* C4: in GET /tickers with the secondary credential configured, exactly one
\* fallback call is attempted when the primary fetch raises and when it returns
\* a payload that is empty or lacks 'symbol'; a failure envelope is returned
\* only after that fallback call has failed too.
C4_FallbackAttempted ==
    (last.endpoint = "/tickers" /\ cfg.RAPIDAPI_KEY # None) =>
        \A i \in 1..Len(last.log) :
            (/\ last.log[i].op = "yf.info"
             /\ \/ last.log[i].res = "raise"
                \/ last.log[i].res = "ok" /\ InvalidInfo(last.log[i].val)) =>
                /\ Cardinality({j \in 1..Len(last.log) : last.log[j].op = "requests.get"}) = 1
                /\ Failure(last.resp) =>
                       \E j \in (i + 1)..Len(last.log) :
                           /\ last.log[j].op = "requests.get"
                           /\ \/ last.log[j].res \in {"raise", "non200"}
                              \/ last.log[j].res = "200" /\ ProfileCheck(last.log[j].val) # "yes"

\* C5: when GET /tickers succeeds through the fallback provider, the value
\* stored under stock_ticker_info:{SYMBOL} is the serialisation of the
\* extracted profile that the request returns as result.
C5_FallbackCachesProfile ==
    (/\ last.endpoint = "/tickers" /\ Success(last.resp) /\ ~cfg.IS_LOCAL_ENV
     /\ HasOp(last.log, {"requests.get"})) =>
        LET key == TickerKey(Upper(last.args.symbol))
        IN  key \in DOMAIN store /\ store[key].val = json_dumps(last.resp.result)

\* C6: proxy selection in /tickers, /history and /periods never raises, for
\* any configuration; the proxy set is prefix + random token + suffix in
\* session-proxy mode and the static address (possibly absent) otherwise.
C6_ProxySelection ==
    last.endpoint \in {"/tickers", "/history", "/periods"} =>
        /\ last.resp.error # "TypeError: unsupported operand"
        /\ \A i \in 1..Len(last.log) :
               last.log[i].op = "yf.set_config" =>
                   IF cfg.SESSION_PROXY
                   THEN \E seed \in Seeds :
                            last.log[i].val
                              = Str(cfg.SESSION_A.v \o generate_random_string(seed) \o cfg.SESSION_B.v)
                   ELSE last.log[i].val = cfg.HTTP_PROXY

\* C7: a date that does not parse as YYYY-MM-DD, as start or end of
\* GET /history or as the date of GET /market/stocks, is answered with a
\* failure envelope and nothing else happens: no cache-store access, no proxy
\* selection, no upstream call.
C7_InvalidDateRejected ==
    /\ (/\ last.endpoint = "/history" /\ Authorized
        /\ ~ParsesAsDate(last.args.start) \/ ~ParsesAsDate(last.args.end))
       => (Failure(last.resp) /\ last.log = <<>>)
    /\ (last.endpoint = "/market" /\ ~ParsesAsDate(last.args.date))
       => (Failure(last.resp) /\ last.log = <<>>)

C7_Witness ==
    /\ last.endpoint = "/history" /\ Authorized
    /\ last.args.start = D_0105 /\ last.args.end = D_slashes
    /\ Failure(last.resp)

\* C8: for well-formed dates with end <= start, GET /history answers the
\* range-order failure envelope with the upper-cased symbol and calls nothing;
\* for end > start the range check does not reject.
C8_RangeOrder ==
    (/\ last.endpoint = "/history" /\ Authorized
     /\ ParsesAsDate(last.args.start) /\ ParsesAsDate(last.args.end)) =>
        LET s == Ordinal(strptime(last.args.start))
            e == Ordinal(strptime(last.args.end))
        IN  /\ e <= s => /\ Failure(last.resp)
                         /\ last.resp.error = RangeError
                         /\ last.resp.symbol = Str(Upper(last.args.symbol))
                         /\ last.args.symbol = <<"a", "b">> => last.resp.symbol = Str(<<"A", "B">>)
                         /\ last.log = <<>>
            /\ e > s => last.resp.error # RangeError

C8_Witness ==
    /\ last.endpoint = "/history" /\ Authorized
    /\ last.args.start = D_0105 /\ last.args.end = D_0105
    /\ last.args.symbol = <<"a", "b">>
    /\ last.resp.error = RangeError

\* C9: a period token outside {1d, 5d, 1mo, 3mo, 6mo, 1y, 2y, 5y, 10y, ytd,
\* max} is answered by GET /periods with a failure envelope that lists that
\* set, with no cache-store access and no upstream call; a token of the set
\* is not rejected.
C9_PeriodTokens ==
    (last.endpoint = "/periods" /\ Authorized) =>
        /\ last.args.periods \notin ClaimedPeriods =>
               /\ Failure(last.resp)
               /\ {last.resp.allowed[i] : i \in 1..Len(last.resp.allowed)} = ClaimedPeriods
               /\ last.log = <<>>
        /\ last.args.periods \in ClaimedPeriods =>
               /\ last.resp.allowed = <<>>
               /\ last.resp.error # "Invalid period. Must be one of: "

C9_Witness ==
    /\ last.endpoint = "/periods" /\ Authorized
    /\ last.args.periods = <<"1", "w">>
    /\ Failure(last.resp)
    /\ last.resp.allowed # <<>>

\* C10: a request to /tickers, /history or /periods whose X-API-Key differs
\* from the configured key is answered 401, no part of the answer is the
\* configured key, and the handler does nothing.
C10_Unauthorized ==
    (/\ last.endpoint \in {"/tickers", "/history", "/periods"}
     /\ last.args.api_key # None
     /\ last.args.api_key # cfg.VALID_API_KEY) =>
        /\ last.resp.http = 401
        /\ last.resp.error = "Invalid API Key"
        /\ last.resp.symbol # cfg.VALID_API_KEY
        /\ last.resp.date # cfg.VALID_API_KEY
        /\ last.resp.result # cfg.VALID_API_KEY
        /\ last.resp.detail # cfg.VALID_API_KEY
        /\ last.resp.allowed = <<>>
        /\ last.log = <<>>

C10_Witness ==
    /\ last.endpoint = "/tickers"
    /\ last.args.api_key = Str(<<"w", "r", "o", "n", "g">>)
    /\ last.resp.http = 401

\* C11: every outbound fetch is bounded by a timeout: no outbound call of a
\* request waits for ever, and no request is left without a response.
C11_FetchesBounded ==
    /\ last.resp # Pending
    /\ \A i \in 1..Len(last.log) :
           last.log[i].op \in UpstreamOps => last.log[i].res # "hang"

\* C12: two requests get the same cache key exactly when they have the same
\* endpoint kind, the same upper-cased symbol and the same period; the keys of
\* /tickers, /periods and /stock/symbol/all never coincide, also for symbols
\* that contain ':'.
C12_KeysInjective ==
    probe.ka # <<>> =>
        /\ (probe.ka = probe.kb) <=>
               /\ probe.a.endpoint = probe.b.endpoint
               /\ probe.a.endpoint # "/all" => Upper(probe.a.symbol) = Upper(probe.b.symbol)
               /\ probe.a.endpoint = "/periods" => probe.a.periods = probe.b.periods
        /\ probe.a.endpoint # probe.b.endpoint => probe.ka # probe.kb

C12_Witness ==
    /\ probe.ka # <<>>
    /\ probe.a.endpoint = "/tickers" /\ probe.b.endpoint = "/tickers"
    /\ probe.a.symbol = <<"a", "b">> /\ probe.b.symbol = <<"A", "B">>
    /\ probe.ka = probe.kb

\* C13: in /tickers, /history and /periods every outbound call is immediately
\* preceded by a proxy selection of its own, so that no selected proxy serves
\* two calls, and a request answered from the cache selects no proxy.
C13_ProxyPerFetch ==
    last.endpoint \in {"/tickers", "/history", "/periods"} =>
        /\ \A i \in 1..Len(last.log) :
               last.log[i].op \in UpstreamOps =>
                   i > 1 /\ last.log[i - 1].op = "yf.set_config"
        /\ last.resp.cache = "hit" => ~HasOp(last.log, {"yf.set_config"})

\* C14: the expiry of every cache-store write is fixed by the endpoint: the
\* long expiry for /tickers on the primary and on the fallback path, the
\* default expiry for /periods, the long expiry for /stock/symbol/all.
C14_TtlPerEndpoint ==
    /\ \A i \in 1..Len(last.log) :
           last.log[i].op = "r.setex" =>
               last.log[i].ttl = CASE last.endpoint = "/tickers" -> CACHE_EXPIRATION_LONG
                                   [] last.endpoint = "/periods" -> CACHE_EXPIRATION
                                   [] last.endpoint = "/all" -> CACHE_EXPIRATION_LONG
                                   [] OTHER -> 0
    /\ \A key \in DOMAIN store :
           store[key].ttl = IF SubSeq(key, 1, Len(NS_PERIODS)) = NS_PERIODS
                            THEN CACHE_EXPIRATION ELSE CACHE_EXPIRATION_LONG

C14_Witness ==
    /\ last.endpoint = "/tickers"
    /\ HasOp(last.log, {"requests.get"})
    /\ last.log[Len(last.log)].op = "r.setex"
    /\ last.log[Len(last.log)].res = "ok"
    /\ last.log[Len(last.log)].ttl = CACHE_EXPIRATION_LONG

\* C15: a request that ends with a failure envelope leaves the cache store as
\* it found it and has made no write; every write to the store belongs to a
\* request that ends with a success envelope.
C15_FailuresNotCached ==
    [][(last = Idle /\ last'.endpoint # "") =>
          /\ Failure(last'.resp) =>
                 /\ store' = store
                 /\ \A i \in 1..Len(last'.log) :
                        ~(last'.log[i].op = "r.setex" /\ last'.log[i].res = "ok")
          /\ store' # store => Success(last'.resp)]_vars

C15_Witness ==
    /\ last.endpoint = "/periods" /\ ~cfg.IS_LOCAL_ENV
    /\ Failure(last.resp)
    /\ last.resp.error = "Data rows are less than 10 rows."
    /\ HasOp(last.log, {"yf.download"})

\* C16: GET /history never reads or writes the cache store, and every request
\* that passes validation makes a fresh upstream fetch.
C16_HistoryUncached ==
    last.endpoint = "/history" =>
        /\ ~HasOp(last.log, CacheOps)
        /\ (/\ Authorized
            /\ ParsesAsDate(last.args.start) /\ ParsesAsDate(last.args.end)
            /\ Ordinal(strptime(last.args.end)) > Ordinal(strptime(last.args.start)))
           => Cardinality({i \in 1..Len(last.log) : last.log[i].op = "yf.history"}) = 1

\* The part of C16 that holds: no /history request touches the store, and
\* with the session prefix and suffix configured a valid request fetches.
HistoryLeavesStore ==
    [][(last = Idle /\ last'.endpoint = "/history") =>
          /\ store' = store
          /\ ~HasOp(last'.log, CacheOps)
          /\ (/\ cfg.SESSION_A # None
              /\ last'.args.api_key = cfg.VALID_API_KEY
              /\ ParsesAsDate(last'.args.start) /\ ParsesAsDate(last'.args.end)
              /\ Ordinal(strptime(last'.args.end)) > Ordinal(strptime(last'.args.start)))
             => HasOp(last'.log, {"yf.history"})]_vars

\* C19: the memoizing cache of /market/stocks retains no upstream reply whose
\* status is not "OK", so a request for a past date that fails on such a
\* reply has just called the upstream, and the next one calls it again.
C19_ErrorsNotMemoized ==
    /\ \A date \in DOMAIN memo :
           /\ "status" \in DOMAIN memo[date].v
           /\ memo[date].v["status"] = Str(<<"O", "K">>)
    /\ (/\ last.endpoint = "/market" /\ ~Success(last.resp)
        /\ ParsesAsDate(last.args.date)
        /\ ~DateLess(Today, strptime(last.args.date)))
       => HasOp(last.log, {"requests.get"})

\* C20: in local mode no request reads or writes the cache store, and every
\* endpoint, /stock/symbol/all included, answers an accepted request with a
\* success or a failure envelope.
C20_LocalMode ==
    (cfg.IS_LOCAL_ENV /\ last.endpoint # "") =>
        /\ ~HasOp(last.log, CacheOps)
        /\ store = EmptyStore
        /\ (last.endpoint \in {"/market", "/all"} \/ Authorized)
           => (Success(last.resp) \/ Failure(last.resp))

\* C17: however the requests for one cache key interleave, a request that
\* succeeds returns either the whole payload of its own upstream fetch or the
\* whole value of one cache entry; a request fetches and writes at most once
\* per provider; and when all requests have finished, the entry of each key
\* is the value of the last write that completed for it.
C17_LastWriteWins ==
    /\ \A i \in DOMAIN tasks :
           LET t == tasks[i]
           IN  t.kind \in {"/tickers", "/all"} =>
                   /\ (t.pc = "done" /\ Success(t.resp)) =>
                          IF t.resp.cache = "hit"
                          THEN /\ ~HasOp(t.log, UpstreamOps \cup {"r.setex"})
                               /\ \E j \in 1..Len(writes) :
                                      /\ writes[j].key = TaskKey(t.kind)
                                      /\ t.resp.result = json_loads(writes[j].val)
                          ELSE t.fetched # None /\ t.resp.result = t.fetched
                   /\ \A op \in {"yf.info", "r.get"} :
                          Cardinality({k \in 1..Len(t.log) : t.log[k].op = op}) <= 1
                   /\ Cardinality({k \in 1..Len(t.log) : t.log[k].op = "requests.get"}) <= 1
                   /\ Len(WritesOf(t.log)) <= 1
    /\ Len(writes) <= Cardinality(DOMAIN tasks)
    /\ (\A i \in DOMAIN tasks : tasks[i].pc \in {"done", "gone"}) =>
           \A key \in {TaskKey(kind) : kind \in {"/tickers", "/all"}} :
               LET ws == SelectSeq(writes, LAMBDA w : w.key = key)
               IN  IF ws = <<>> THEN key \notin DOMAIN store
                   ELSE key \in DOMAIN store /\ store[key].val = ws[Len(ws)].val

C17_Witness ==
    /\ DOMAIN tasks = 1..MaxTasks
    /\ \A i \in DOMAIN tasks : tasks[i].kind = "/all" /\ tasks[i].pc \in {"done", "gone"}
    /\ tasks[1].pc = "done" /\ Success(tasks[1].resp) /\ tasks[1].resp.cache # "hit"
    /\ Len(writes) = MaxTasks
    /\ writes[1].val # writes[Len(writes)].val
    /\ store[ALL_KEY].val = json_dumps(tasks[1].fetched)

\* C18: whenever a /tickers, /history or /periods request makes an outbound
\* call, the proxy in the process-wide configuration is the one this request
\* selected, whatever other requests are being handled at the same time.
C18_ProxyOwnSelection ==
    \A i \in DOMAIN tasks :
        \A k \in 1..Len(tasks[i].used) : tasks[i].used[k] = tasks[i].sel

C18_Witness ==
    /\ DOMAIN tasks = 1..MaxTasks
    /\ IsCoroutine(tasks[1].kind) /\ IsCoroutine(tasks[2].kind)
    /\ tasks[1].pc = "gone" /\ tasks[1].sel # None
    /\ tasks[2].pc = "done" /\ tasks[2].used = <<tasks[2].sel>>
    /\ tasks[1].sel # tasks[2].sel

====
